---- MODULE Spec2Model ----
(***************************************************************************)
(* PyDocumentationExtractor.py as a state machine.                         *)
(*                                                                         *)
(* A run is main(): single-file mode or directory mode.  Every .py file    *)
(* met is loaded (extract_from_file), its Markdown file is opened and the  *)
(* header written (analyze_module), and its attributes are walked          *)
(* recursively (analyze_attributes).  Text is modelled by real strings.    *)
(* Python's None / missing attribute is the empty tuple, a present value   *)
(* s is <<s>>.                                                             *)
(***************************************************************************)
EXTENDS Integers, Sequences, FiniteSets, TLC

VARIABLES
    world,      \* the inputs of the run: command line, file system, sources
    pc,         \* position of the single thread of control
    error,      \* "" or the name of the exception that ended the run
    dirstack,   \* frames of extract_from_directory: [dir, idx, prefix]
    unit,       \* <<>> or <<[path, package]>>: the unit extract_from_file handles
    stack,      \* frames of analyze_attributes: [obj, idx, class_mode]
    sinks,      \* paths of the output files currently open
    files,      \* output directory: path -> text of the file
    log,        \* history of file_handle.write calls of analyze_attributes
    loads,      \* history of load attempts: [path, package, ok]
    opened,     \* history of open(path, 'w') calls: the paths, in order
    fp          \* get_formatted_parameters applied to an input: [params, result]

vars == <<world, pc, error, dirstack, unit, stack, sinks, files, log, loads,
          opened, fp>>

--------------------------------------------------------------------------
(* Bounds *)

\* deepest directory level below the input directory
KMax == 2
\* depth of analyze_attributes frames at which the interpreter raises
\* RecursionError (the interpreter's limit, scaled down)
MaxDepth == 4
\* longest parameter list given to get_formatted_parameters
MaxParams == 3

--------------------------------------------------------------------------
(* Python values *)

None == <<>>
Some(s) == <<s>>

ILLEGAL_ATTRIBUTES ==
    {"__builtins__", "__cached__", "__file__", "__loader__", "__name__",
     "__package__", "__spec__", "__abstractmethods__", "__class__"}

--------------------------------------------------------------------------
(* Strings and paths *)

Digit(n) == <<"0", "1", "2", "3", "4", "5", "6", "7", "8", "9">>[n + 1]

\* index of the last occurrence of the one-character string c in s[1..i], or 0
RECURSIVE LastIndex(_, _, _)
LastIndex(s, c, i) ==
    IF i = 0 THEN 0
    ELSE IF SubSeq(s, i, i) = c THEN i
    ELSE LastIndex(s, c, i - 1)

\* str.endswith
EndsWith(s, suffix) ==
    /\ Len(s) >= Len(suffix)
    /\ SubSeq(s, Len(s) - Len(suffix) + 1, Len(s)) = suffix

\* os.path.join of a directory and a relative name
PathJoin(dir, name) == dir \o "/" \o name

\* os.path.basename
Basename(path) ==
    SubSeq(path, LastIndex(path, "/", Len(path)) + 1, Len(path))

\* os.path.splitext: split at the last dot, unless only dots precede it
Splitext(name) ==
    LET dot == LastIndex(name, ".", Len(name))
        lead == \A i \in 1..(dot - 1) : SubSeq(name, i, i) = "."
    IN  IF dot = 0 \/ lead
        THEN <<name, "">>
        ELSE <<SubSeq(name, 1, dot - 1), SubSeq(name, dot, Len(name))>>

--------------------------------------------------------------------------
(* The file system the run reads.  The input directory /in holds a chain  *)
(* of subdirectories d1/d2/.../dKMax; the directory at level j holds one  *)
(* Python file, one text file and (below KMax) the next subdirectory.     *)
(* /src holds the files of single-file mode.                              *)

InputDir == "/in"
OutputDir == "/out"

DirName(j) == "d" \o Digit(j)
FileName(j) == IF j = 0 THEN "A.py" ELSE "m" \o Digit(j) \o ".py"

RECURSIVE DirPath(_)
DirPath(j) == IF j = 0 THEN InputDir ELSE PathJoin(DirPath(j - 1), DirName(j))

TreeFile(j) == PathJoin(DirPath(j), FileName(j))
NotesFile(j) == PathJoin(DirPath(j), "notes.txt")

Levels == 0..KMax
SingleFiles == {"/src/mod.py", "/src/A.py"}

IsDir(path) == \E j \in Levels : path = DirPath(j)
IsFile(path) ==
    \/ path \in SingleFiles
    \/ \E j \in Levels : path = TreeFile(j) \/ path = NotesFile(j)

\* os.listdir: arbitrary order, fixed for the run by world.order
ListDir(w, dir) ==
    LET j == CHOOSE k \in Levels : DirPath(k) = dir
        fs == <<FileName(j), "notes.txt">>
        ds == IF j < KMax THEN <<DirName(j + 1)>> ELSE <<>>
    IN  IF w.order = "files_first" THEN fs \o ds ELSE ds \o fs

--------------------------------------------------------------------------
(* Function parameters, as inspect.signature reports them.                *)
(* kind: "pos" POSITIONAL_OR_KEYWORD, "var" VAR_POSITIONAL (star args),   *)
(* "kw" KEYWORD_ONLY, "varkw" VAR_KEYWORD (double-star kwargs);           *)
(* default: None or Some(the literal typed in the declaration).           *)

Param(name, kind, default) == [name |-> name, kind |-> kind, default |-> default]

\* repr() of the value a default-value literal evaluates to
ReprOfLiteral(lit) ==
    CASE lit = "0x10" -> "16"
      [] lit = "\"x\"" -> "'x'"
      [] OTHER -> lit

\* str(inspect.Parameter)
ParameterStr(p) ==
    LET named == IF p.default = None
                 THEN p.name
                 ELSE p.name \o "=" \o ReprOfLiteral(p.default[1])
    IN  CASE p.kind = "var" -> "*" \o named
          [] p.kind = "varkw" -> "**" \o named
          [] OTHER -> named

\* the loop of get_formatted_parameters from index i on
RECURSIVE FormatFrom(_, _)
FormatFrom(params, i) ==
    IF i > Len(params) THEN ""
    ELSE ParameterStr(params[i])
         \o (IF i # Len(params) THEN ", " ELSE "")
         \o FormatFrom(params, i + 1)

get_formatted_parameters(params) == "(" \o FormatFrom(params, 1) \o ")"

--------------------------------------------------------------------------
(* Sources and the objects executing them creates.                        *)
(* A source src stands for the Python file                                *)
(*     """moddoc"""                                                       *)
(*     from <imp> import join                                             *)
(*     VALUE = 1                                                          *)
(*     def f(a, b=1): """fdoc"""                                          *)
(*     g = f                          (when alias)                        *)
(*     class A:                                                           *)
(*         """cdoc"""                                                     *)
(*         h = join                                                       *)
(*         def m(self): """fdoc"""                                        *)
(*         class <inner>:                                                 *)
(*             def n(self): pass                                          *)
(*     A.me = A | A.<inner> | f       (per me)                            *)

ModuleObj == 0
ClassA == 1
ClassInner == 2
FnM == 3
FnN == 4
FnF == 5
FnJoin == 6
Value == 7
TypeObj == 8
Plain == 9

Obj(kind, name, mod, doc, attrs, params) ==
    [kind |-> kind, name |-> name, mod |-> mod, doc |-> doc, attrs |-> attrs,
     params |-> params]

\* the objects reachable from the module object after exec_module; attrs is
\* dir(obj) (sorted by name) paired with getattr(obj, name)
exec_module(src, package) ==
    LET meTarget == CASE src.me = "self" -> <<<<"me", ClassA>>>>
                      [] src.me = "inner" -> <<<<"me", ClassInner>>>>
                      [] src.me = "f" -> <<<<"me", FnF>>>>
                      [] OTHER -> <<>>
        here == Some(package)
    IN  [o \in 0..9 |->
          CASE o = ModuleObj ->
                 Obj("module", package, None, src.moddoc,
                     <<<<"A", ClassA>>, <<"VALUE", Value>>,
                       <<"__builtins__", Plain>>, <<"__doc__", Plain>>,
                       <<"__name__", Plain>>, <<"f", FnF>>>>
                     \o (IF src.alias THEN <<<<"g", FnF>>>> ELSE <<>>)
                     \o <<<<"join", FnJoin>>>>,
                     <<>>)
            [] o = ClassA ->
                 Obj("class", "A", here, src.cdoc,
                     <<<<src.inner, ClassInner>>, <<"__class__", TypeObj>>,
                       <<"__doc__", Plain>>, <<"__module__", Plain>>,
                       <<"h", FnJoin>>, <<"m", FnM>>>> \o meTarget,
                     <<>>)
            [] o = ClassInner ->
                 Obj("class", src.inner, here, None,
                     <<<<"__class__", TypeObj>>, <<"__doc__", Plain>>,
                       <<"__module__", Plain>>, <<"n", FnN>>>>,
                     <<>>)
            [] o = FnM ->
                 Obj("function", "m", here, src.fdoc, <<>>,
                     <<Param("self", "pos", None)>>)
            [] o = FnN ->
                 Obj("function", "n", here, None, <<>>,
                     <<Param("self", "pos", None)>>)
            [] o = FnF ->
                 Obj("function", "f", here, src.fdoc, <<>>,
                     <<Param("a", "pos", None), Param("b", "pos", Some("1"))>>)
            [] o = FnJoin ->
                 Obj("function", "join", Some(src.imp), Some("Join paths."),
                     <<>>,
                     <<Param("a", "pos", None), Param("p", "var", None)>>)
            [] o = TypeObj ->
                 Obj("class", "type", Some("builtins"), Some("type(object)"),
                     <<>>, <<>>)
            [] OTHER ->
                 Obj("other", "", None, None, <<>>, <<>>)]

Sources ==
    [moddoc : {None, Some(""), Some("Top module.")},
     cdoc : {None, Some("A class.")},
     fdoc : {None, Some("Adds two numbers.")},
     inner : {"A", "B"},
     me : {"none", "self", "inner", "f"},
     imp : {"os.path", "A"},
     alias : BOOLEAN]

\* the sources of the files of directory mode
DirSources ==
    {s \in Sources : /\ s.moddoc # Some("")
                     /\ s.cdoc = None /\ s.fdoc = None
                     /\ s.inner = "B" /\ s.me \in {"none", "self"}
                     /\ s.imp = "os.path" /\ ~s.alias}

PlainSource == CHOOSE s \in DirSources : s.moddoc = None /\ s.me = "none"

--------------------------------------------------------------------------
(* The inputs of a run: the parsed command line (parse_arguments), the    *)
(* listing order of the file system, the files that fail to load and the  *)
(* source every loadable file holds.                                      *)

World(mode, input, recursive, order, bad, src) ==
    [mode |-> mode, input |-> input, recursive |-> recursive,
     order |-> order, bad |-> bad, src |-> src]

FileWorlds ==
    {World("file", f, FALSE, "files_first", {}, s) :
        f \in SingleFiles, s \in Sources}
    \cup {World("file", "/src/mod.py", FALSE, "files_first", {"/src/mod.py"},
                PlainSource),
          World("file", "/src/missing.py", FALSE, "files_first", {},
                PlainSource)}

DirWorlds ==
    {World("dir", InputDir, r, o, b, s) :
        r \in BOOLEAN, o \in {"files_first", "dirs_first"},
        b \in {{}} \cup {{TreeFile(j)} : j \in Levels}, s \in DirSources}
    \cup {World("dir", "/nowhere", TRUE, "files_first", {}, PlainSource)}

Worlds == FileWorlds \cup DirWorlds

NoFp == [params |-> <<>>, result |-> None]

Init ==
    /\ world \in Worlds
    /\ pc = "main"
    /\ error = ""
    /\ dirstack = <<>>
    /\ unit = <<>>
    /\ stack = <<>>
    /\ sinks = {}
    /\ files = [p \in {} |-> ""]
    /\ log = <<>>
    /\ loads = <<>>
    /\ opened = <<>>
    /\ fp = NoFp

--------------------------------------------------------------------------
(* Control *)

\* an exception nobody catches: every frame is unwound and the run ends
Raise(exc) ==
    /\ pc' = "aborted"
    /\ error' = exc
    /\ dirstack' = <<>>
    /\ stack' = <<>>
    /\ unit' = <<>>

\* return from extract_from_file to its caller
ReturnFromFile ==
    /\ pc' = IF dirstack = <<>> THEN "done" ELSE "dir"
    /\ unit' = <<>>

Top(s) == s[Len(s)]
Pop(s) == SubSeq(s, 1, Len(s) - 1)
SetTop(s, fr) == [s EXCEPT ![Len(s)] = fr]

\* main()
Main ==
    /\ pc = "main"
    /\ IF world.mode = "dir"
       THEN IF ~IsDir(world.input)
            THEN Raise("NotADirectoryError")
            ELSE /\ pc' = "dir"
                 /\ dirstack' = <<[dir |-> world.input, idx |-> 1,
                                   prefix |-> ""]>>
                 /\ UNCHANGED <<error, stack, unit>>
       ELSE /\ pc' = "file"
            /\ unit' = <<[path |-> world.input, prefix |-> "", package |-> ""]>>
            /\ UNCHANGED <<error, dirstack, stack>>
    /\ UNCHANGED <<world, sinks, files, log, loads, opened, fp>>

\* extract_from_directory: one iteration of the loop over os.listdir(dir)
DirEntry ==
    /\ pc = "dir"
    /\ LET fr == Top(dirstack)
           entries == ListDir(world, fr.dir)
       IN  /\ fr.idx <= Len(entries)
           /\ LET sub_path == entries[fr.idx]
                  path == PathJoin(fr.dir, sub_path)
                  next == SetTop(dirstack, [fr EXCEPT !.idx = fr.idx + 1])
              IN  IF IsFile(path) /\ EndsWith(path, ".py")
                  THEN /\ pc' = "file"
                       /\ unit' = <<[path |-> path, prefix |-> fr.prefix,
                                     package |-> ""]>>
                       /\ dirstack' = next
                  ELSE IF world.recursive /\ IsDir(path)
                  THEN /\ dirstack' =
                            Append(next, [dir |-> path, idx |-> 1,
                                          prefix |-> fr.prefix \o sub_path \o "."])
                       /\ UNCHANGED <<pc, unit>>
                  ELSE /\ dirstack' = next
                       /\ UNCHANGED <<pc, unit>>
    /\ UNCHANGED <<world, error, stack, sinks, files, log, loads, opened, fp>>

\* extract_from_directory: the loop is exhausted, return to the caller
DirReturn ==
    /\ pc = "dir"
    /\ Top(dirstack).idx > Len(ListDir(world, Top(dirstack).dir))
    /\ dirstack' = Pop(dirstack)
    /\ pc' = IF Len(dirstack) = 1 THEN "done" ELSE "dir"
    /\ UNCHANGED <<world, error, unit, stack, sinks, files, log, loads, opened,
                   fp>>

--------------------------------------------------------------------------
(* extract_from_file *)

\* mutant: the prefix of the directories walked is dropped
PythonPackageNoPrefix(path, prefix) == Splitext(Basename(path))[1]

\* python_package: prefix + name, name the base name without its extension
PythonPackage(path, prefix) == prefix \o Splitext(Basename(path))[1]

\* mutant: the failure is swallowed and the walk goes on with the next entry
LoadFailedSkipped(u, package) ==
    /\ pc' = IF dirstack = <<>> THEN "done" ELSE "dir"
    /\ unit' = <<>>
    /\ loads' = Append(loads, [path |-> u.path, package |-> package, ok |-> FALSE])
    /\ UNCHANGED <<error, dirstack, stack>>

\* exec_module raises: nothing catches it between here and main
LoadFailed(u, package) ==
    /\ Raise("ImportError")
    /\ loads' = Append(loads, [path |-> u.path, package |-> package, ok |-> FALSE])

\* extract_from_file up to and including exec_module
ExtractLoad ==
    /\ pc = "file"
    /\ LET u == unit[1]
           package == PythonPackage(u.path, u.prefix)
       IN  IF ~IsFile(u.path)
           THEN Raise("FileNotFoundError") /\ UNCHANGED loads
           ELSE IF u.path \in world.bad
           THEN LoadFailed(u, package)
           ELSE /\ pc' = "loaded"
                /\ unit' = <<[u EXCEPT !.package = package]>>
                /\ loads' = Append(loads, [path |-> u.path, package |-> package,
                                           ok |-> TRUE])
                /\ UNCHANGED <<error, dirstack, stack>>
    /\ UNCHANGED <<world, sinks, files, log, opened, fp>>

--------------------------------------------------------------------------
(* analyze_module *)

\* the module object and everything reachable from it, for the loaded unit
Heap == exec_module(world.src, unit[1].package)

OutputPath(package) == PathJoin(OutputDir, package \o ".md")

\* what analyze_module writes before it calls analyze_attributes
ModuleHeader(package, doc) ==
    "# " \o package \o "\n" \o "\n"
    \o (IF doc # None /\ doc[1] # "" THEN doc[1] ELSE "")

WriteTo(path, text) ==
    [p \in DOMAIN files \cup {path} |->
        IF p = path
        THEN (IF path \in DOMAIN files THEN files[path] ELSE "") \o text
        ELSE files[p]]

\* open(path, 'w'): the file is created or truncated
Truncated(path) ==
    [p \in DOMAIN files \cup {path} |-> IF p = path THEN "" ELSE files[p]]

\* analyze_module: open the sink, write the header, call analyze_attributes
AnalyzeModuleOpen ==
    /\ pc = "loaded"
    /\ LET package == unit[1].package
           path == OutputPath(package)
       IN  /\ sinks' = sinks \cup {path}
           /\ opened' = Append(opened, path)
           /\ files' = [Truncated(path) EXCEPT
                          ![path] = ModuleHeader(package, Heap[ModuleObj].doc)]
           /\ stack' = <<[obj |-> ModuleObj, idx |-> 1, class_mode |-> FALSE]>>
           /\ pc' = "attrs"
    /\ UNCHANGED <<world, error, dirstack, unit, log, loads, fp>>

\* analyze_module: open() raises (missing output directory, permissions)
OpenFails ==
    /\ pc = "loaded"
    /\ Raise("OSError")
    /\ UNCHANGED <<world, sinks, files, log, loads, opened, fp>>

--------------------------------------------------------------------------
(* analyze_attributes *)

\* getattr(attr, '__module__', '')
ModuleNameOf(attr) == IF attr.mod = None THEN "" ELSE attr.mod[1]

\* mutant: no ownership test at all
OwnedAlways(attr, module) == TRUE

\* mutant: below a class the defining module is compared with the module the
\* class was defined in, not with the class's name
OwnedByModule(attr, module) ==
    ModuleNameOf(attr) =
        (IF module.kind = "module" THEN module.name ELSE ModuleNameOf(module))

\* the test of line 89, negated: the attribute is kept
Owned(attr, module) == ModuleNameOf(attr) = module.name

\* mutant: the docstring is formatted without the None test
DocTextStr(doc) == IF doc = None THEN "None" ELSE doc[1]

\* '' if attr.__doc__ is None else attr.__doc__
DocText(doc) == IF doc = None THEN "" ELSE doc[1]

ClassText(attr_name, attr) ==
    "## Class " \o attr_name \o "\n" \o DocText(attr.doc) \o "\n"

FunctionDescription(class_mode, attr_name, attr) ==
    IF class_mode
    THEN "### Method " \o attr_name
    ELSE "## Function " \o attr_name \o get_formatted_parameters(attr.params)

FunctionText(class_mode, attr_name, attr) ==
    FunctionDescription(class_mode, attr_name, attr) \o "\n"
    \o DocText(attr.doc) \o "\n"

\* mutant: the recursive call passes its own mode on
ChildModeInherited(class_mode) == class_mode

\* the class_mode argument of the recursive call
ChildMode(class_mode) == TRUE

\* the sinks left open when the with block of analyze_module is left by a
\* normal return
SinksAfterWith(path) == sinks \ {path}

\* mutant: the sink is closed by a plain close() after the traversal, which an
\* exception skips
SinksLeftOpen(path) == sinks

\* the sinks left open when the with block is left by an exception
SinksAfterRaise(path) == sinks \ {path}

CurrentSink == OutputPath(unit[1].package)

Frame == Top(stack)
AttrName == Heap[Frame.obj].attrs[Frame.idx][1]
AttrId == Heap[Frame.obj].attrs[Frame.idx][2]
Attr == Heap[AttrId]
HasAttr == pc = "attrs" /\ Frame.idx <= Len(Heap[Frame.obj].attrs)
Kept == AttrName \notin ILLEGAL_ATTRIBUTES /\ Owned(Attr, Heap[Frame.obj])
Advanced == SetTop(stack, [Frame EXCEPT !.idx = Frame.idx + 1])

LogEntry(text) ==
    [path |-> CurrentSink, package |-> unit[1].package, unit |-> Frame.obj,
     attr_name |-> AttrName,
     obj |-> AttrId, class_mode |-> Frame.class_mode, depth |-> Len(stack),
     text |-> text]

\* an iteration that writes nothing
AttrSkip ==
    /\ HasAttr
    /\ ~Kept \/ Attr.kind \notin {"class", "function"}
    /\ stack' = Advanced
    /\ UNCHANGED <<world, pc, error, dirstack, unit, sinks, files, log, loads,
                   opened, fp>>

\* an iteration on a class: write its heading, then the recursive call
AttrClass ==
    /\ HasAttr
    /\ Kept
    /\ Attr.kind = "class"
    /\ files' = WriteTo(CurrentSink, ClassText(AttrName, Attr))
    /\ log' = Append(log, LogEntry(ClassText(AttrName, Attr)))
    /\ IF Len(stack) >= MaxDepth
       THEN /\ Raise("RecursionError")
            /\ sinks' = SinksAfterRaise(CurrentSink)
       ELSE /\ stack' = Append(Advanced,
                               [obj |-> AttrId, idx |-> 1,
                                class_mode |-> ChildMode(Frame.class_mode)])
            /\ UNCHANGED <<pc, error, dirstack, unit, sinks>>
    /\ UNCHANGED <<world, loads, opened, fp>>

\* an iteration on a function
AttrFunction ==
    /\ HasAttr
    /\ Kept
    /\ Attr.kind = "function"
    /\ files' = WriteTo(CurrentSink,
                        FunctionText(Frame.class_mode, AttrName, Attr))
    /\ log' = Append(log,
                     LogEntry(FunctionText(Frame.class_mode, AttrName, Attr)))
    /\ stack' = Advanced
    /\ UNCHANGED <<world, pc, error, dirstack, unit, sinks, loads, opened, fp>>

\* file_handle.write raises: the with block closes the sink on the way out
WriteFails ==
    /\ HasAttr
    /\ Kept
    /\ Attr.kind \in {"class", "function"}
    /\ Raise("OSError")
    /\ sinks' = SinksAfterRaise(CurrentSink)
    /\ UNCHANGED <<world, files, log, loads, opened, fp>>

\* the loop over dir(module) is exhausted: return; the outermost return
\* leaves the with block of analyze_module and extract_from_file returns
AttrReturn ==
    /\ pc = "attrs"
    /\ Frame.idx > Len(Heap[Frame.obj].attrs)
    /\ stack' = Pop(stack)
    /\ IF Len(stack) = 1
       THEN /\ sinks' = SinksAfterWith(CurrentSink)
            /\ ReturnFromFile
       ELSE UNCHANGED <<pc, unit, sinks>>
    /\ UNCHANGED <<world, error, dirstack, files, log, loads, opened, fp>>

--------------------------------------------------------------------------
(* The program *)

Next ==
    \/ Main
    \/ DirEntry
    \/ DirReturn
    \/ ExtractLoad
    \/ AnalyzeModuleOpen
    \/ OpenFails
    \/ AttrSkip
    \/ AttrClass
    \/ AttrFunction
    \/ WriteFails
    \/ AttrReturn

Spec == Init /\ [][Next]_vars

--------------------------------------------------------------------------
(* get_formatted_parameters on its own: every well-formed parameter list  *)
(* of at most MaxParams parameters is formatted once.                     *)

ParamNames == <<"a", "b", "c", "d", "e", "f", "g", "h">>
DefaultLiterals == {"1", "0x10"}

Rank(kind) == CASE kind = "pos" -> 1 [] kind = "var" -> 2
                [] kind = "kw" -> 3 [] OTHER -> 4

\* the parameter lists a def statement can declare
WellFormed(ps) ==
    /\ \A i \in 1..Len(ps) : ps[i].name = ParamNames[i]
    /\ \A i \in 1..Len(ps) : ps[i].kind \in {"var", "varkw"} => ps[i].default = None
    /\ \A i, j \in 1..Len(ps) :
          i < j => /\ Rank(ps[i].kind) <= Rank(ps[j].kind)
                   /\ ps[i].kind = ps[j].kind => ps[i].kind \in {"pos", "kw"}
                   /\ (ps[i].kind = "pos" /\ ps[j].kind = "pos"
                       /\ ps[i].default # None) => ps[j].default # None

ParamsAt(i) ==
    [name : {ParamNames[i]}, kind : {"pos", "var", "kw", "varkw"},
     default : {None} \cup {Some(d) : d \in DefaultLiterals}]

RECURSIVE ParamListsOfLen(_)
ParamListsOfLen(n) ==
    IF n = 0 THEN {<<>>}
    ELSE {ps \in {Append(qs, p) : qs \in ParamListsOfLen(n - 1), p \in ParamsAt(n)} :
            WellFormed(ps)}

ParamLists == UNION {ParamListsOfLen(n) : n \in 0..MaxParams}

InitParams ==
    /\ world = World("file", "/src/mod.py", FALSE, "files_first", {}, PlainSource)
    /\ pc = "main"
    /\ error = ""
    /\ dirstack = <<>>
    /\ unit = <<>>
    /\ stack = <<>>
    /\ sinks = {}
    /\ files = [p \in {} |-> ""]
    /\ log = <<>>
    /\ loads = <<>>
    /\ opened = <<>>
    /\ fp \in [params : ParamLists, result : {None}]

FormatParameters ==
    /\ fp.result = None
    /\ fp' = [fp EXCEPT !.result = Some(get_formatted_parameters(fp.params))]
    /\ UNCHANGED <<world, pc, error, dirstack, unit, stack, sinks, files, log,
                   loads, opened>>

NextParams == FormatParameters

SpecParams == InitParams /\ [][NextParams]_vars

--------------------------------------------------------------------------
(* Vocabulary of the properties *)

HeapOf(package) == exec_module(world.src, package)

StartsWith(s, prefix) ==
    Len(s) >= Len(prefix) /\ SubSeq(s, 1, Len(prefix)) = prefix

\* index of the first occurrence of the one-character string c in s from i on,
\* or 0
RECURSIVE FirstIndex(_, _, _)
FirstIndex(s, c, i) ==
    IF i > Len(s) THEN 0
    ELSE IF SubSeq(s, i, i) = c THEN i
    ELSE FirstIndex(s, c, i + 1)

\* a heading block is "<heading line>\n<body>\n"
HeadingLine(text) == SubSeq(text, 1, FirstIndex(text, "\n", 1) - 1)
BodyOf(text) == SubSeq(text, FirstIndex(text, "\n", 1) + 1, Len(text) - 1)

\* the heading blocks written to the file at path while enumerating unit u
BlocksAt(path, u) ==
    {i \in 1..Len(log) : log[i].path = path /\ log[i].unit = u}

\* the heading blocks the object o got in the file at path
BlocksOf(path, o) ==
    {i \in 1..Len(log) : log[i].path = path /\ log[i].obj = o}

\* the classes and functions the source declares at its top level, and the
\* function it imports
DeclaredInModule == {ClassA, FnF}
ImportedIntoModule == {FnJoin}

\* the units whose rendering has returned
Rendered ==
    {i \in 1..Len(loads) :
        /\ loads[i].ok
        /\ i <= Len(opened)
        /\ (i < Len(loads) \/ pc \in {"dir", "done"})}

\* the signatures as typed in the source
DeclaredSignature(o) ==
    CASE o = FnF -> "(a, b=1)"
      [] o = FnJoin -> "(a, *p)"
      [] OTHER -> "(self)"

--------------------------------------------------------------------------
(* C1 *)

\* C1, as stated: in the output of every rendered module, each class or
\* function declared directly in the module has exactly one heading block and
\* an imported function has none.
C1_OneBlockPerDeclaredMember ==
    \A i \in Rendered :
        LET path == OutputPath(loads[i].package)
        IN  /\ \A o \in DeclaredInModule : Cardinality(BlocksOf(path, o)) = 1
            /\ \A o \in ImportedIntoModule : BlocksOf(path, o) = {}

\* C1, amended: while the module itself is enumerated, each attribute name
\* outside the deny-list that is bound to a class or function reporting the
\* module's name as its defining module gets exactly one heading block (a
\* member bound to two names gets two), and every other attribute name gets
\* none.
C1_OneBlockPerOwnedName ==
    \A i \in Rendered :
        LET path == OutputPath(loads[i].package)
            H == HeapOf(loads[i].package)
            attrs == H[ModuleObj].attrs
        IN  /\ \A k \in 1..Len(attrs) :
                  LET n == attrs[k][1]
                      v == H[attrs[k][2]]
                      blocks == {b \in BlocksAt(path, ModuleObj) :
                                    log[b].attr_name = n}
                  IN  IF /\ n \notin ILLEGAL_ATTRIBUTES
                         /\ v.kind \in {"class", "function"}
                         /\ v.mod = Some(loads[i].package)
                      THEN Cardinality(blocks) = 1
                      ELSE blocks = {}
            /\ \A b \in BlocksAt(path, ModuleObj) :
                  \E k \in 1..Len(attrs) :
                      attrs[k] = <<log[b].attr_name, log[b].obj>>

\* a module with an alias was rendered: its function has a block under each
\* of its two names and the imported function has none at module level
C1_Witness ==
    /\ pc = "done"
    /\ world.src.alias
    /\ world.src.imp = "os.path"
    /\ \E i \in Rendered :
          LET path == OutputPath(loads[i].package)
          IN  /\ Cardinality({b \in BlocksAt(path, ModuleObj) :
                                 log[b].obj = FnF}) = 2
              /\ BlocksOf(path, FnJoin) = {}
              /\ BlocksOf(path, ClassA) # {}

--------------------------------------------------------------------------
(* C2 *)

\* C2, as stated: a rendered module with a class holding one method and one
\* nested class has, in this order, the class heading, the method's heading,
\* the nested class's heading and then the nested class's method, written
\* under a Method heading.
C2_ClassMethodThenNested ==
    \A i \in Rendered :
        LET path == OutputPath(loads[i].package)
        IN  \E a, m, c, n \in 1..Len(log) :
               /\ a < m /\ m < c /\ c < n
               /\ \A x \in {a, m, c, n} : log[x].path = path
               /\ log[a].obj = ClassA
               /\ HeadingLine(log[a].text) = "## Class A"
               /\ log[m].obj = FnM
               /\ HeadingLine(log[m].text) = "### Method m"
               /\ log[c].obj = ClassInner
               /\ HeadingLine(log[c].text) = "## Class " \o world.src.inner
               /\ log[n].obj = FnN
               /\ HeadingLine(log[n].text) = "### Method n"

--------------------------------------------------------------------------
(* C3 *)

\* C3: every function written while a class is enumerated has the heading
\* "### Method <name>" with no signature, and every function written while
\* the module is enumerated has "## Function <name>" followed by its
\* signature, also after a class subtree has been rendered.
C3_HeadingFollowsEnumeratedUnit ==
    \A i \in 1..Len(log) :
        LET H == HeapOf(log[i].package)
        IN  H[log[i].obj].kind = "function" =>
               IF H[log[i].unit].kind = "class"
               THEN HeadingLine(log[i].text) = "### Method " \o log[i].attr_name
               ELSE HeadingLine(log[i].text) =
                       "## Function " \o log[i].attr_name
                       \o DeclaredSignature(log[i].obj)

\* a method was written below a nested class, and after the class subtree a
\* module function was written with its signature
C3_Witness ==
    \E i, j, k \in 1..Len(log) :
        /\ i < j /\ j < k
        /\ log[i].depth = 2 /\ log[i].text = "## Class A\n\n"
        /\ log[j].depth = 3 /\ HeadingLine(log[j].text) = "### Method n"
        /\ log[k].depth = 1 /\ log[k].path = log[j].path
        /\ HeadingLine(log[k].text) = "## Function f(a, b=1)"

--------------------------------------------------------------------------
(* C4 *)

RECURSIVE BlocksText(_, _)
BlocksText(path, i) ==
    IF i > Len(log) THEN ""
    ELSE (IF log[i].path = path THEN log[i].text ELSE "")
         \o BlocksText(path, i + 1)

\* C4: the body of every heading block is the docstring verbatim, or the
\* empty string when there is none; every output file is "# " and the display
\* name, a blank line, the module docstring or nothing, then the blocks.
C4_DocstringOrEmpty ==
    /\ \A i \in 1..Len(log) :
          LET doc == HeapOf(log[i].package)[log[i].obj].doc
          IN  /\ EndsWith(log[i].text, "\n")
              /\ BodyOf(log[i].text) = (IF doc = None THEN "" ELSE doc[1])
    /\ \A i \in 1..Len(opened) :
          LET doc == world.src.moddoc
          IN  files[opened[i]] =
                 "# " \o loads[i].package \o "\n\n"
                 \o (IF doc = None THEN "" ELSE doc[1])
                 \o BlocksText(opened[i], 1)

\* a module without docstring was rendered with a class without docstring and
\* a function with one
C4_Witness ==
    /\ pc = "done"
    /\ world.src.moddoc = None
    /\ \E i, j \in 1..Len(log) :
          /\ log[i].text = "## Class A\n\n"
          /\ log[j].text = "## Function f(a, b=1)\nAdds two numbers.\n"

--------------------------------------------------------------------------
(* C5 *)

\* a parameter as typed in the declaration
DeclaredParam(p) ==
    (CASE p.kind = "var" -> "*" [] p.kind = "varkw" -> "**" [] OTHER -> "")
    \o p.name
    \o (IF p.default = None THEN "" ELSE "=" \o p.default[1])

\* the declaration from parameter i on; a bare * precedes the first
\* keyword-only parameter that no variadic parameter precedes
RECURSIVE DeclaredFrom(_, _)
DeclaredFrom(ps, i) ==
    IF i > Len(ps) THEN ""
    ELSE (IF i > 1 THEN ", " ELSE "")
         \o (IF /\ ps[i].kind = "kw"
                /\ \A j \in 1..(i - 1) : ps[j].kind = "pos"
             THEN "*, " ELSE "")
         \o DeclaredParam(ps[i])
         \o DeclaredFrom(ps, i + 1)

\* C5: get_formatted_parameters returns the parenthesised parameter
\* declarations exactly as declared, in order, joined by ", ".
C5_SignatureAsDeclared ==
    fp.result # None =>
        fp.result[1] = "(" \o DeclaredFrom(fp.params, 1) \o ")"

--------------------------------------------------------------------------
(* C6 *)

\* C6: the traversal never descends into a class that is already on the
\* recursion path, and so never exhausts the interpreter's stack.
C6_NoClassDescendedTwice ==
    /\ \A i, j \in 1..Len(stack) : i < j => stack[i].obj # stack[j].obj
    /\ error # "RecursionError"

--------------------------------------------------------------------------
(* C7 *)

LoadHasFailed == \E i \in 1..Len(loads) : ~loads[i].ok

\* C7: once loading a unit has failed the run is over: the failed attempt is
\* the last one, no output file was opened for it, and no load, open or write
\* follows; the files written before stay as they are.
C7_LoadFailureAborts ==
    /\ [](LoadHasFailed =>
            /\ pc = "aborted"
            /\ error = "ImportError"
            /\ \A i \in 1..Len(loads) : ~loads[i].ok => i = Len(loads)
            /\ \A i, j \in 1..Len(loads) :
                  loads[i].path = loads[j].path => i = j
            /\ Len(opened) < Len(loads)
            /\ OutputPath(loads[Len(loads)].package) \notin DOMAIN files
            /\ sinks = {})
    /\ [][LoadHasFailed =>
            /\ loads' = loads
            /\ opened' = opened
            /\ files' = files
            /\ log' = log
            /\ sinks' = sinks]_vars

\* in directory mode a unit was rendered and the next one failed to load
C7_Witness ==
    /\ world.mode = "dir"
    /\ Len(loads) >= 2
    /\ ~loads[Len(loads)].ok
    /\ Len(opened) = Len(loads) - 1
    /\ \A i \in 1..Len(opened) : opened[i] \in DOMAIN files

--------------------------------------------------------------------------
(* C8 *)

RECURSIVE DotsForSlashes(_, _)
DotsForSlashes(s, i) ==
    IF i > Len(s) THEN ""
    ELSE (IF SubSeq(s, i, i) = "/" THEN "." ELSE SubSeq(s, i, i))
         \o DotsForSlashes(s, i + 1)

\* d1.d2...dk.base for the file <input-dir>/d1/d2/.../dk/base.py
DisplayName(path) ==
    DotsForSlashes(SubSeq(path, Len(InputDir) + 2, Len(path) - Len(".py")), 1)

\* the number of directories between the input directory and the file
LevelOfFile(path) == CHOOSE j \in Levels : TreeFile(j) = path

\* C8: in directory mode only files directly in the input directory are
\* processed, and with recursive mode on also those below it; a processed
\* file d1/.../dk/base.py is written to <output-dir>/d1.d2...dk.base.md under
\* the heading "# d1.d2...dk.base"; a run that ends normally has processed
\* every such file; with recursive mode off no subdirectory is entered.
C8_DirectoryNaming ==
    world.mode = "dir" =>
        /\ \A i \in 1..Len(loads) :
              /\ \E j \in Levels : loads[i].path = TreeFile(j)
              /\ LevelOfFile(loads[i].path) = 0 \/ world.recursive
              /\ loads[i].package = DisplayName(loads[i].path)
        /\ \A i \in 1..Len(opened) :
              /\ opened[i] = OutputDir \o "/" \o DisplayName(loads[i].path) \o ".md"
              /\ StartsWith(files[opened[i]],
                            "# " \o DisplayName(loads[i].path) \o "\n")
        /\ DOMAIN files = {opened[i] : i \in 1..Len(opened)}
        /\ pc = "done" =>
              /\ {loads[i].path : i \in 1..Len(loads)} =
                    {TreeFile(j) : j \in {k \in Levels : k = 0 \/ world.recursive}}
              /\ Len(opened) = Len(loads)
        /\ ~world.recursive =>
              \A i \in 1..Len(dirstack) : dirstack[i].dir = InputDir

\* a recursive run ended normally and wrote d1.m1.md with its heading
C8_Witness ==
    /\ world.mode = "dir"
    /\ world.recursive
    /\ pc = "done"
    /\ OutputPath("d1.m1") \in DOMAIN files
    /\ StartsWith(files[OutputPath("d1.m1")], "# d1.m1\n\n")
    /\ OutputPath("A") \in DOMAIN files

--------------------------------------------------------------------------
(* C9 *)

\* C9: at most one sink is open; a sink is open only while its unit, the last
\* one loaded, is being rendered; none is open while the next unit is found
\* or loaded, nor when the run has ended, normally or by an exception.
C9_OneSinkScoped ==
    /\ Cardinality(sinks) <= 1
    /\ sinks # {} =>
          /\ pc = "attrs"
          /\ loads # <<>>
          /\ loads[Len(loads)].ok
          /\ sinks = {OutputPath(loads[Len(loads)].package)}
          /\ opened[Len(opened)] = OutputPath(loads[Len(loads)].package)
    /\ pc \in {"main", "dir", "file", "loaded", "done", "aborted"} => sinks = {}

\* a unit was rendered and closed, and the rendering of the next one failed
\* after its sink had been opened
C9_Witness ==
    /\ pc = "aborted"
    /\ error \in {"OSError", "RecursionError"}
    /\ Len(opened) >= 2
    /\ Len(opened) = Len(loads)
    /\ sinks = {}

--------------------------------------------------------------------------
(* C10 *)

====
